---- MODULE Spec2Model ----
(***************************************************************************)
(* Attendance record book: the shift lifecycle (clockIn, startBreak,       *)
(* endBreak, clockOut), the administrative add/update of attendance        *)
(* records and the work-minutes calculator of                              *)
(* src/lib/attendanceService.ts, over the 'attendance' collection; the     *)
(* aggregation and the edit form of the admin page, the dashboard, and the *)
(* audit log helper buildChanges.                                          *)
(*                                                                         *)
(* Instants are whole seconds of local (store) time counted from a local   *)
(* midnight.  A document id is the position of the document in records     *)
(* (documents are never deleted by this service).                          *)
(***************************************************************************)
EXTENDS Integers, Sequences, FiniteSets, TLC

VARIABLES
    records,    \* the 'attendance' collection: sequence of documents
    now,        \* the clock: the instant read by the latest call
    last,       \* the latest call and what it returned to its caller
    adminCalls, \* how many administrative calls were made
    calls,      \* per terminal: the lifecycle call it has in flight, or had last
    shift,      \* the checkIn, checkOut and breaks handed to the calculator
    calculated, \* what the calculator returned for shift
    homePage,   \* the dashboard (app/page.tsx): loading, attendance, and the
                \* relevantAttendance it was built from
    adminPage,  \* the admin page: employees, aggFilters, aggregatedResults
    editing,    \* the edit form: editingRecordId, editingFormData; the presses
                \* of the minimum-break helper
    audit       \* buildChanges: before, afterUpdates and the changes returned

vars ==
    <<records, now, last, adminCalls, calls, shift, calculated, homePage,
      adminPage, editing, audit>>

(* The state of the pages and of the audit log helper. *)
pages == <<homePage, adminPage, editing, audit>>

----------------------------------------------------------------------------
(* Bounds of the model *)

MaxRecords == 2         \* documents in the collection
MaxBreaks == 2          \* breaks in the collection when startBreak adds one
MaxAdminCalls == 1      \* administrative calls (add, update) in one run

(* The run starts at 14:00 local time, so that 8 h later it is 22:00. *)
StartClock == 14 * 3600

(* The instants at which calls are made: 14:00, 14:30 and 22:30 of the     *)
(* same day.  A call is made at the instant of the previous call or later. *)
Instants ==
    {StartClock, StartClock + 1800, StartClock + 30600}

Users == {"u1", "u2"}

(* JavaScript null (a Timestamp is never negative here). *)
NULL == 0 - 1
(* "no document id": the lookup's null. *)
NoId == 0

(* The instant h:m:s of local time; h >= 24 is an hour of the next day. *)
At(h, m, s) == h * 3600 + m * 60 + s

Break(start, end) == [start |-> start, end |-> end]

----------------------------------------------------------------------------
(* Results reported to the caller: "ok" or the thrown Error's message. *)

OK == "ok"
ErrAlreadyClockedIn == "User is already clocked in. Cannot start a new session."
ErrNotClockedInOut == "User is not clocked in. Cannot clock out."
ErrNotClockedInStartBreak == "User is not clocked in. Cannot start a break."
ErrNotClockedInEndBreak == "User is not clocked in. Cannot end a break."
ErrAlreadyOnBreak == "User is already on a break."
ErrNotOnBreak == "User is not on a break."
ErrCheckInRequired == "checkIn is required"
ErrFailedUpdate == "Failed to update attendance record."
ErrRecordNotFound == "Attendance record not found."

NotClockedInErrors ==
    {ErrNotClockedInOut, ErrNotClockedInStartBreak, ErrNotClockedInEndBreak}

----------------------------------------------------------------------------
(* The work-minutes calculator *)

startOfMinute(t) == t - (t % 60)

getHours(t) == (t \div 3600) % 24

(* Faulty variant: the night ends at 06:00. *)
isNightHour_UntilSix(hour) == hour >= 22 \/ hour < 6

(* Night hours are 22, 23, 0, 1, 2, 3, 4. *)
isNightHour(hour) == hour >= 22 \/ hour < 5

(* Faulty variant: the minute at which a break ends is taken as break too. *)
isBreak_UpToEnd(currentMinute, breaks) ==
    \E i \in DOMAIN breaks :
        /\ breaks[i].start # NULL
        /\ breaks[i].end # NULL
        /\ currentMinute >= breaks[i].start
        /\ currentMinute <= breaks[i].end

(* breaks.some(...): the minute lies in a break that has start and end. *)
isBreak(currentMinute, breaks) ==
    \E i \in DOMAIN breaks :
        /\ breaks[i].start # NULL
        /\ breaks[i].end # NULL
        /\ currentMinute >= breaks[i].start
        /\ currentMinute < breaks[i].end

ZeroMinutes ==
    [regularWorkMinutes |-> 0, nightWorkMinutes |-> 0, totalWorkMinutes |-> 0]

Min(S) == CHOOSE x \in S : \A y \in S : x <= y

(* The first instant after currentMinute, at most checkOut, at which the   *)
(* loop's classification of a minute can change: the loop's end, a start   *)
(* or end of a break, or 05:00 or 22:00 of the clock.                      *)
nextChange(currentMinute, checkOut, breaks) ==
    LET day == (currentMinute \div 86400) * 86400
        hours == {day + 5 * 3600, day + 22 * 3600, day + 86400 + 5 * 3600}
        edges == {breaks[i].start : i \in DOMAIN breaks}
                     \cup {breaks[i].end : i \in DOMAIN breaks}
    IN  Min({checkOut} \cup {t \in hours \cup edges : t > currentMinute})

(* The while loop.  Its iterations from currentMinute up to the next       *)
(* change are classified alike, so they are counted in one step: `steps`   *)
(* iterations of currentMinute = nextMinute.                               *)
RECURSIVE walkMinutes(_, _, _, _, _)
walkMinutes(currentMinute, checkOut, breaks, regularMinutes, nightMinutes) ==
    IF ~(currentMinute < checkOut)
    THEN [regularWorkMinutes |-> regularMinutes,
          nightWorkMinutes |-> nightMinutes,
          totalWorkMinutes |-> regularMinutes + nightMinutes]
    ELSE LET stop == nextChange(currentMinute, checkOut, breaks)
             steps == ((stop - currentMinute) + 59) \div 60
             nextMinute == currentMinute + 60 * steps
         IN  IF isBreak(currentMinute, breaks)
             THEN walkMinutes(nextMinute, checkOut, breaks,
                              regularMinutes, nightMinutes)
             ELSE IF isNightHour(getHours(currentMinute))
             THEN walkMinutes(nextMinute, checkOut, breaks,
                              regularMinutes, nightMinutes + steps)
             ELSE walkMinutes(nextMinute, checkOut, breaks,
                              regularMinutes + steps, nightMinutes)

calculateWorkMinutes(checkIn, checkOut, breaks) ==
    IF checkIn = NULL \/ checkOut = NULL
    THEN ZeroMinutes
    ELSE walkMinutes(startOfMinute(checkIn), checkOut, breaks, 0, 0)

----------------------------------------------------------------------------
(* The store *)

(* Faulty variant: the null test of the query is inverted (checkOut != null). *)
IsOpenOf_Inverted(recs, id, userId) ==
    recs[id].userId = userId /\ recs[id].checkOut # NULL

(* Faulty variant: the query lacks where('checkOut', '==', null). *)
IsOpenOf_AnyCheckOut(recs, id, userId) ==
    recs[id].userId = userId

(* where('userId', '==', userId), where('checkOut', '==', null) *)
IsOpenOf(recs, id, userId) ==
    recs[id].userId = userId /\ recs[id].checkOut = NULL

(* The open documents of the user, orderBy('checkIn', 'desc'), limit(1).   *)
(* A null checkIn sorts lowest; documents with equal checkIn are ordered   *)
(* by document id, descending like the last orderBy.                       *)
getOpenAttendanceRecordId(recs, userId) ==
    LET open == {id \in DOMAIN recs : IsOpenOf(recs, id, userId)}
    IN  IF open = {} THEN NoId
        ELSE CHOOSE id \in open :
                \A o \in open :
                    \/ recs[o].checkIn < recs[id].checkIn
                    \/ (recs[o].checkIn = recs[id].checkIn /\ o <= id)

(* Faulty variant: the predicate tests start instead of end, so it finds nothing.  *)
openBreakIndex_TestsStart(breaks) ==
    LET open == {i \in DOMAIN breaks : breaks[i].start = NULL}
    IN  IF open = {} THEN 0 ELSE CHOOSE i \in open : \A j \in open : i <= j

(* Faulty variant: findIndex finds no break, whatever the breaks are. *)
openBreakIndex_NoneFound(breaks) == 0

(* findIndex(_break => _break.end === null); 0 stands for -1. *)
openBreakIndex(breaks) ==
    LET open == {i \in DOMAIN breaks : breaks[i].end = NULL}
    IN  IF open = {} THEN 0 ELSE CHOOSE i \in open : \A j \in open : i <= j

(* updateDoc: only the named fields change. *)
updateDoc(recs, id, fields) ==
    [recs EXCEPT ![id] =
        [f \in DOMAIN recs[id] |->
            IF f \in DOMAIN fields THEN fields[f] ELSE recs[id][f]]]

RECURSIVE totalBreaks(_)
totalBreaks(recs) ==
    IF recs = <<>> THEN 0
    ELSE Len(Head(recs).breaks) + totalBreaks(Tail(recs))

Returned(op, userId, id, result) ==
    [op |-> op, userId |-> userId, id |-> id, result |-> result]

----------------------------------------------------------------------------
(* The lifecycle operations.  at is the instant of the call. *)

(* getTodayDateString(): the local date of the instant, YYYY-MM-DD.  Dates *)
(* are only compared, and the zero-padded text orders as the days do: a    *)
(* date is the number of its day, day 1 being the day on which the         *)
(* instants start to count.                                                *)
getTodayDateString(t) == 1 + (t \div 86400)

(* Faulty variant: the record is created as addAttendanceRecord creates it, isModified: true. *)
createUnlessOpen_AsAdded(openAttendanceId, userId, at) ==
    /\ at >= now
    /\ now' = at
    /\ UNCHANGED adminCalls
    /\ IF openAttendanceId # NoId
       THEN /\ records' = records
            /\ last' = Returned("clockIn", userId, NoId, ErrAlreadyClockedIn)
       ELSE /\ Len(records) < MaxRecords
            /\ records' = Append(records,
                    [userId |-> userId,
                     date |-> getTodayDateString(now'),
                     checkIn |-> now',
                     checkOut |-> NULL,
                     breaks |-> <<>>,
                     isModified |-> TRUE,
                     regularWorkMinutes |-> 0,
                     nightWorkMinutes |-> 0,
                     totalWorkMinutes |-> 0])
            /\ last' = Returned("clockIn", userId, Len(records) + 1, OK)

createUnlessOpen(openAttendanceId, userId, at) ==
    /\ at >= now
    /\ now' = at
    /\ UNCHANGED adminCalls
    /\ IF openAttendanceId # NoId
       THEN /\ records' = records
            /\ last' = Returned("clockIn", userId, NoId, ErrAlreadyClockedIn)
       ELSE /\ Len(records) < MaxRecords
            /\ records' = Append(records,
                    [userId |-> userId,
                     date |-> getTodayDateString(now'),
                     checkIn |-> now',
                     checkOut |-> NULL,
                     breaks |-> <<>>,
                     isModified |-> FALSE,
                     regularWorkMinutes |-> 0,
                     nightWorkMinutes |-> 0,
                     totalWorkMinutes |-> 0])
            /\ last' = Returned("clockIn", userId, Len(records) + 1, OK)

(* Faulty variant: the record is created without looking for an open session. *)
clockIn_Unguarded(userId, at) == createUnlessOpen(NoId, userId, at)

clockIn(userId, at) ==
    createUnlessOpen(getOpenAttendanceRecordId(records, userId), userId, at)

(* record.breaks with the first open break, if any, closed at checkOutTime *)
closeOpenBreak(breaks, checkOutTime) ==
    IF openBreakIndex(breaks) # 0
    THEN [breaks EXCEPT ![openBreakIndex(breaks)].end = checkOutTime]
    ELSE breaks

clockOut(userId, at) ==
    LET openAttendanceId == getOpenAttendanceRecordId(records, userId)
    IN  /\ at >= now
        /\ now' = at
        /\ UNCHANGED adminCalls
        /\ IF openAttendanceId = NoId
           THEN /\ records' = records
                /\ last' = Returned("clockOut", userId, NoId, ErrNotClockedInOut)
           ELSE LET checkOutTime == now'
                    record == records[openAttendanceId]
                    breaks == closeOpenBreak(record.breaks, checkOutTime)
                    workMinutes ==
                        calculateWorkMinutes(record.checkIn, checkOutTime, breaks)
                IN  /\ records' = updateDoc(records, openAttendanceId,
                            [checkOut |-> checkOutTime,
                             breaks |-> breaks,
                             regularWorkMinutes |-> workMinutes.regularWorkMinutes,
                             nightWorkMinutes |-> workMinutes.nightWorkMinutes,
                             totalWorkMinutes |-> workMinutes.totalWorkMinutes])
                    /\ last' = Returned("clockOut", userId, openAttendanceId, OK)

startBreak(userId, at) ==
    LET openAttendanceId == getOpenAttendanceRecordId(records, userId)
    IN  /\ at >= now
        /\ now' = at
        /\ UNCHANGED adminCalls
        /\ IF openAttendanceId = NoId
           THEN /\ records' = records
                /\ last' = Returned("startBreak", userId, NoId,
                                    ErrNotClockedInStartBreak)
           ELSE LET record == records[openAttendanceId]
                IN  IF openBreakIndex(record.breaks) # 0
                    THEN /\ records' = records
                         /\ last' = Returned("startBreak", userId,
                                             openAttendanceId, ErrAlreadyOnBreak)
                    ELSE /\ totalBreaks(records) < MaxBreaks
                         /\ records' = updateDoc(records, openAttendanceId,
                                [breaks |-> Append(record.breaks,
                                            [start |-> now', end |-> NULL])])
                         /\ last' = Returned("startBreak", userId,
                                             openAttendanceId, OK)

(* Faulty variant: only the break that was ended is written back. *)
endedBreaks_OnlyEnded(breaks, index, t) ==
    <<[start |-> breaks[index].start, end |-> t]>>

(* updatedBreaks = [...record.breaks]; updatedBreaks[index].end = now *)
endedBreaks(breaks, index, t) == [breaks EXCEPT ![index].end = t]

endBreak(userId, at) ==
    LET openAttendanceId == getOpenAttendanceRecordId(records, userId)
    IN  /\ at >= now
        /\ now' = at
        /\ UNCHANGED adminCalls
        /\ IF openAttendanceId = NoId
           THEN /\ records' = records
                /\ last' = Returned("endBreak", userId, NoId,
                                    ErrNotClockedInEndBreak)
           ELSE LET record == records[openAttendanceId]
                    index == openBreakIndex(record.breaks)
                IN  IF index = 0
                    THEN /\ records' = records
                         /\ last' = Returned("endBreak", userId,
                                             openAttendanceId, ErrNotOnBreak)
                    ELSE /\ records' = updateDoc(records, openAttendanceId,
                                [breaks |-> endedBreaks(record.breaks, index, now')])
                         /\ last' = Returned("endBreak", userId,
                                             openAttendanceId, OK)

----------------------------------------------------------------------------
(* The administrative operations.  Neither reads the clock. *)

(* What the administrator enters: a closed 30-minute break, an open break. *)
ClosedBreak == [start |-> StartClock, end |-> StartClock + 1800]
OpenBreak == [start |-> StartClock, end |-> NULL]

(* updatedFields: Partial<Attendance>; the domain is the set of its keys.  *)
UpdateInputs ==
    {[checkIn |-> t] : t \in {NULL, StartClock + 1800}}
        \cup {[checkOut |-> t] : t \in {NULL, StartClock, StartClock + 30600}}
        \cup {[breaks |-> b] : b \in {<<>>, <<ClosedBreak>>, <<OpenBreak, OpenBreak>>}}
        \cup {[checkIn |-> StartClock, checkOut |-> NULL]}
        \cup {[totalWorkMinutes |-> 999]}

AddInputs ==
    [userId : Users,
     date : {getTodayDateString(StartClock) - 1, getTodayDateString(StartClock)},
     checkIn : {NULL, StartClock},
     checkOut : {NULL, StartClock + 30600},
     breaks : {<<>>, <<ClosedBreak>>}]

Has(fields, key) == key \in DOMAIN fields

(* updatedFields.key || currentRecord.key *)
OrCurrent(fields, key, currentRecord) ==
    IF Has(fields, key) /\ fields[key] # NULL
    THEN fields[key]
    ELSE currentRecord[key]

currentWorkMinutes(currentRecord) ==
    [regularWorkMinutes |-> currentRecord.regularWorkMinutes,
     nightWorkMinutes |-> currentRecord.nightWorkMinutes,
     totalWorkMinutes |-> currentRecord.totalWorkMinutes]

(* if (updatedFields.checkIn || updatedFields.checkOut || updatedFields.breaks) *)
recalculates(updatedFields) ==
    \/ (Has(updatedFields, "checkIn") /\ updatedFields.checkIn # NULL)
    \/ (Has(updatedFields, "checkOut") /\ updatedFields.checkOut # NULL)
    \/ Has(updatedFields, "breaks")

(* Faulty variant: the spreads are in the other order, the keys of a override those of b. *)
spread_FirstWins(a, b) ==
    [k \in DOMAIN a \cup DOMAIN b |-> IF k \in DOMAIN a THEN a[k] ELSE b[k]]

(* { ...a, ...b }: the keys of b override those of a. *)
spread(a, b) ==
    [k \in DOMAIN a \cup DOMAIN b |-> IF k \in DOMAIN b THEN b[k] ELSE a[k]]

updateAttendanceRecord(recordId, updatedFields) ==
    /\ adminCalls < MaxAdminCalls
    /\ adminCalls' = adminCalls + 1
    /\ now' = now
    /\ IF recordId \notin DOMAIN records
       THEN /\ records' = records
            /\ last' = Returned("updateAttendanceRecord", "none", recordId,
                                ErrFailedUpdate)
       ELSE LET currentRecord == records[recordId]
                newCheckIn == OrCurrent(updatedFields, "checkIn", currentRecord)
                newCheckOut == OrCurrent(updatedFields, "checkOut", currentRecord)
                newBreaks == IF Has(updatedFields, "breaks")
                             THEN updatedFields.breaks
                             ELSE currentRecord.breaks
                workMinutes ==
                    IF recalculates(updatedFields)
                    THEN calculateWorkMinutes(newCheckIn, newCheckOut, newBreaks)
                    ELSE currentWorkMinutes(currentRecord)
            IN  IF recalculates(updatedFields) /\ newCheckIn = NULL
                THEN \* Timestamp.fromDate(null) throws inside the try block
                     /\ records' = records
                     /\ last' = Returned("updateAttendanceRecord",
                                         currentRecord.userId, recordId,
                                         ErrFailedUpdate)
                ELSE /\ records' = updateDoc(records, recordId,
                            spread(spread(updatedFields, workMinutes),
                                   [isModified |-> TRUE]))
                     /\ last' = Returned("updateAttendanceRecord",
                                         currentRecord.userId, recordId, OK)

(* The call when the store rejects its getDoc or its updateDoc (the store  *)
(* is unreachable, the permission is denied): the catch block throws.      *)
updateAttendanceRecordRejected(recordId, updatedFields) ==
    /\ adminCalls < MaxAdminCalls
    /\ adminCalls' = adminCalls + 1
    /\ now' = now
    /\ records' = records
    /\ last' = Returned("updateAttendanceRecord",
                        IF recordId \in DOMAIN records
                        THEN records[recordId].userId ELSE "none",
                        recordId, ErrFailedUpdate)

addAttendanceRecord(newRecordData) ==
    /\ adminCalls < MaxAdminCalls
    /\ adminCalls' = adminCalls + 1
    /\ now' = now
    /\ IF newRecordData.checkIn = NULL
       THEN /\ records' = records
            /\ last' = Returned("addAttendanceRecord", newRecordData.userId,
                                NoId, ErrCheckInRequired)
       ELSE LET workMinutes ==
                    calculateWorkMinutes(newRecordData.checkIn,
                                         newRecordData.checkOut,
                                         newRecordData.breaks)
            IN  /\ Len(records) < MaxRecords
                /\ records' = Append(records,
                        spread([userId |-> newRecordData.userId,
                                date |-> newRecordData.date,
                                checkIn |-> newRecordData.checkIn,
                                checkOut |-> newRecordData.checkOut,
                                breaks |-> newRecordData.breaks,
                                isModified |-> TRUE],
                               workMinutes))
                /\ last' = Returned("addAttendanceRecord", newRecordData.userId,
                                    Len(records) + 1, OK)

----------------------------------------------------------------------------
----------------------------------------------------------------------------
(* The lifecycle operations step by step.  Each is an async function: it   *)
(* suspends at every await, and a call made at another terminal can run    *)
(* its own steps in between.  A step is one request served by the store    *)
(* together with the code that runs when it resolves, up to the next await *)
(* or to the return.  Nothing makes the steps of a call one transaction.   *)

MaxCalls == 2           \* calls made at one terminal

Terminals == {"t1", "t2"}

LifecycleOps == {"clockIn", "startBreak", "endBreak", "clockOut"}

(* A terminal that has made no call yet.  pc is the await the call is      *)
(* suspended at; id is the document the call works on; at is the instant   *)
(* the call read from the clock; fields is what it hands to updateDoc.     *)
NoCall ==
    [op |-> "none", userId |-> "none", pc |-> "idle", n |-> 0,
     id |-> NoId, at |-> NULL, fields |-> <<>>, result |-> OK]

ErrNotClockedIn(op) ==
    CASE op = "clockOut" -> ErrNotClockedInOut
      [] op = "startBreak" -> ErrNotClockedInStartBreak
      [] op = "endBreak" -> ErrNotClockedInEndBreak

(* const newBreaks = [...record.breaks, { start: Timestamp.now(), end: null }] *)
startBreakFields(record, t) ==
    [breaks |-> Append(record.breaks, [start |-> t, end |-> NULL])]

endBreakFields(record, index, t) ==
    [breaks |-> endedBreaks(record.breaks, index, t)]

(* Faulty variant: only checkOut is written; breaks and minutes are left to a later write. *)
clockOutFields_OnlyCheckOut(record, checkOutTime) ==
    [checkOut |-> checkOutTime]

(* { checkOut: checkOutTime, breaks: record.breaks, ...workMinutes } *)
clockOutFields(record, checkOutTime) ==
    LET breaks == closeOpenBreak(record.breaks, checkOutTime)
        workMinutes == calculateWorkMinutes(record.checkIn, checkOutTime, breaks)
    IN  [checkOut |-> checkOutTime,
         breaks |-> breaks,
         regularWorkMinutes |-> workMinutes.regularWorkMinutes,
         nightWorkMinutes |-> workMinutes.nightWorkMinutes,
         totalWorkMinutes |-> workMinutes.totalWorkMinutes]

(* The call of terminal t throws: it returns result to its caller. *)
throws(t, call, id, result) ==
    /\ calls' = [calls EXCEPT ![t] =
                    [call EXCEPT !.pc = "idle", !.id = id, !.result = result]]
    /\ last' = Returned(call.op, call.userId, id, result)

(* The call of terminal t suspends at the await pc. *)
suspends(t, call, pc) ==
    /\ calls' = [calls EXCEPT ![t] = [call EXCEPT !.pc = pc]]
    /\ last' = last

(* A call is made at terminal t: const openAttendanceId = await            *)
(* getOpenAttendanceRecordId(userId), and the tests that follow it.        *)
(* clockOut reads the clock here (checkOutTime); no other call does.       *)
awaitOpenAttendanceId(t, op, userId, at) ==
    LET openAttendanceId == getOpenAttendanceRecordId(records, userId)
        call == [op |-> op, userId |-> userId, pc |-> "idle",
                 n |-> calls[t].n + 1, id |-> openAttendanceId,
                 at |-> NULL, fields |-> <<>>, result |-> "pending"]
    IN  /\ calls[t].pc = "idle"
        /\ calls[t].n < MaxCalls
        /\ at >= now
        /\ now' = at
        /\ UNCHANGED <<records, adminCalls, shift, calculated, pages>>
        /\ IF op = "clockIn"
           THEN /\ at = now
                /\ IF openAttendanceId # NoId
                   THEN throws(t, call, NoId, ErrAlreadyClockedIn)
                   ELSE suspends(t, call, "addDoc")
           ELSE IF openAttendanceId = NoId
                THEN /\ at = now
                     /\ throws(t, call, NoId, ErrNotClockedIn(op))
                ELSE IF op = "clockOut"
                     THEN suspends(t, [call EXCEPT !.at = at], "getDoc")
                     ELSE /\ at = now
                          /\ suspends(t, call, "getDoc")

(* const docSnap = await getDoc(attendanceDocRef), and the code up to the  *)
(* call of updateDoc.  startBreak and endBreak read the clock here.        *)
awaitDocSnap(t, at) ==
    LET call == calls[t]
        record == records[call.id]
        index == openBreakIndex(record.breaks)
    IN  /\ call.pc = "getDoc"
        /\ at >= now
        /\ now' = at
        /\ UNCHANGED <<records, adminCalls, shift, calculated, pages>>
        /\ CASE call.op = "startBreak" ->
                    IF index # 0
                    THEN /\ at = now
                         /\ throws(t, call, call.id, ErrAlreadyOnBreak)
                    ELSE /\ totalBreaks(records) < MaxBreaks
                         /\ suspends(t, [call EXCEPT !.at = at,
                                            !.fields = startBreakFields(record, at)],
                                     "updateDoc")
             [] call.op = "endBreak" ->
                    IF index = 0
                    THEN /\ at = now
                         /\ throws(t, call, call.id, ErrNotOnBreak)
                    ELSE suspends(t, [call EXCEPT !.at = at,
                                         !.fields = endBreakFields(record, index, at)],
                                  "updateDoc")
             [] call.op = "clockOut" ->
                    /\ at = now
                    /\ suspends(t, [call EXCEPT
                                       !.fields = clockOutFields(record, call.at)],
                                "updateDoc")

(* await updateDoc(attendanceDocRef, fields); the call returns. *)
awaitUpdateDoc(t) ==
    LET call == calls[t]
    IN  /\ call.pc = "updateDoc"
        /\ records' = updateDoc(records, call.id, call.fields)
        /\ calls' = [calls EXCEPT ![t] =
                        [call EXCEPT !.pc = "idle", !.result = OK]]
        /\ last' = Returned(call.op, call.userId, call.id, OK)
        /\ UNCHANGED <<now, adminCalls, shift, calculated, pages>>

(* await addDoc(attendanceCol, {...}); the call returns.  checkIn is       *)
(* serverTimestamp(): the instant at which the store creates the document. *)
awaitAddDoc(t, at) ==
    LET call == calls[t]
    IN  /\ call.pc = "addDoc"
        /\ createUnlessOpen(NoId, call.userId, at)
        /\ calls' = [calls EXCEPT ![t] =
                        [call EXCEPT !.pc = "idle", !.id = Len(records) + 1,
                                     !.at = at, !.result = OK]]
        /\ UNCHANGED <<shift, calculated, pages>>

----------------------------------------------------------------------------
(* The aggregation of the admin page: getAggregatedAttendance and the      *)
(* estimated salary of handleAggregate.                                    *)

(* x || 0 *)
OrZero(x) == IF x = NULL THEN 0 ELSE x

(* map.set(key, value) on a Map held as a function *)
mapSet(map, key, value) ==
    [k \in DOMAIN map \cup {key} |-> IF k = key THEN value ELSE map[k]]

(* getDocs(q): the documents with startDateStr <= date <= endDateStr, of   *)
(* userId if one is given, ordered by date and, within a date, as stored.  *)
RECURSIVE getDocsByDate(_, _, _, _)
getDocsByDate(recs, userId, startDateStr, endDateStr) ==
    IF startDateStr > endDateStr
    THEN <<>>
    ELSE SelectSeq(recs,
                   LAMBDA record :
                        /\ record.date = startDateStr
                        /\ userId # "" => record.userId = userId)
            \o getDocsByDate(recs, userId, startDateStr + 1, endDateStr)

(* Faulty variant: the minutes of every record go to every entry. *)
addRecord_ToAll(aggregatedData, record) ==
    LET current(k) ==
            IF k \in DOMAIN aggregatedData
            THEN aggregatedData[k]
            ELSE [regularWorkMinutes |-> 0, nightWorkMinutes |-> 0,
                  totalWorkMinutes |-> 0]
    IN  [k \in DOMAIN aggregatedData \cup {record.userId} |->
            [regularWorkMinutes |->
                current(k).regularWorkMinutes + OrZero(record.regularWorkMinutes),
             nightWorkMinutes |->
                current(k).nightWorkMinutes + OrZero(record.nightWorkMinutes),
             totalWorkMinutes |->
                current(k).totalWorkMinutes + OrZero(record.totalWorkMinutes)]]

(* The body of querySnapshot.forEach: the record is added to the entry of  *)
(* its userId, which starts at zero.                                       *)
addRecord(aggregatedData, record) ==
    LET current ==
            IF record.userId \in DOMAIN aggregatedData
            THEN aggregatedData[record.userId]
            ELSE [regularWorkMinutes |-> 0, nightWorkMinutes |-> 0,
                  totalWorkMinutes |-> 0]
    IN  mapSet(aggregatedData, record.userId,
               [regularWorkMinutes |->
                    current.regularWorkMinutes + OrZero(record.regularWorkMinutes),
                nightWorkMinutes |->
                    current.nightWorkMinutes + OrZero(record.nightWorkMinutes),
                totalWorkMinutes |->
                    current.totalWorkMinutes + OrZero(record.totalWorkMinutes)])

RECURSIVE forEachRecord(_, _)
forEachRecord(querySnapshot, aggregatedData) ==
    IF querySnapshot = <<>>
    THEN aggregatedData
    ELSE forEachRecord(Tail(querySnapshot),
                       addRecord(aggregatedData, Head(querySnapshot)))

getAggregatedAttendance(recs, userId, startDateStr, endDateStr) ==
    forEachRecord(getDocsByDate(recs, userId, startDateStr, endDateStr), <<>>)

(* employees.find(emp => emp.uid === uid); hourlyRate is 0 if none is found *)
hourlyRateOf(employees, uid) ==
    IF \E i \in DOMAIN employees : employees[i].uid = uid
    THEN employees[CHOOSE i \in DOMAIN employees :
                        /\ employees[i].uid = uid
                        /\ \A j \in 1 .. i - 1 : employees[j].uid # uid].hourlyRate
    ELSE 0

(* regularPay + nightPay in 120ths of a currency unit:                     *)
(* (regular / 60) * rate + (night / 60) * rate * 1.5                       *)
regularPay(data, hourlyRate) == 2 * data.regularWorkMinutes * hourlyRate

(* Faulty variant: night minutes are paid at the base rate. *)
nightPay_BaseRate(data, hourlyRate) == 2 * data.nightWorkMinutes * hourlyRate

nightPay(data, hourlyRate) == 3 * data.nightWorkMinutes * hourlyRate

(* Math.round(n / 120), n >= 0: the nearest integer, a half going up.  The *)
(* code divides and multiplies in doubles, so that a sum whose exact value *)
(* ends in .5 can reach Math.round just below the half (20 night minutes   *)
(* at rate 7 give 3.4999999999999996): there both neighbours can come out. *)
MathRound(n) ==
    {(n + 60) \div 120} \cup (IF n % 120 = 60 THEN {n \div 120} ELSE {})

(* handleAggregate: the submit handler of the aggregation form. *)
handleAggregate ==
    LET userId == adminPage.aggFilters.userId
        startDate == adminPage.aggFilters.startDate
        endDate == adminPage.aggFilters.endDate
    IN  /\ last.op # "handleAggregate"
        /\ IF startDate = NULL \/ endDate = NULL
           THEN /\ adminPage' = adminPage
                /\ last' = Returned("handleAggregate", userId, NoId,
                                    "alert: select start and end date")
           ELSE LET attendanceResults ==
                        getAggregatedAttendance(records, userId, startDate, endDate)
                    salaries(uid) ==
                        MathRound(
                            regularPay(attendanceResults[uid],
                                       hourlyRateOf(adminPage.employees, uid))
                            + nightPay(attendanceResults[uid],
                                       hourlyRateOf(adminPage.employees, uid)))
                IN  /\ \E estimatedSalary \in
                            [DOMAIN attendanceResults ->
                                UNION {salaries(uid) : uid \in DOMAIN attendanceResults}] :
                            /\ \A uid \in DOMAIN attendanceResults :
                                    estimatedSalary[uid] \in salaries(uid)
                            /\ adminPage' =
                                [adminPage EXCEPT !.aggregatedResults =
                                    [uid \in DOMAIN attendanceResults |->
                                        [regularWorkMinutes |->
                                            attendanceResults[uid].regularWorkMinutes,
                                         nightWorkMinutes |->
                                            attendanceResults[uid].nightWorkMinutes,
                                         totalWorkMinutes |->
                                            attendanceResults[uid].totalWorkMinutes,
                                         hourlyRate |->
                                            hourlyRateOf(adminPage.employees, uid),
                                         estimatedSalary |-> estimatedSalary[uid]]]]
                    /\ last' = Returned("handleAggregate", userId, NoId, OK)
        /\ UNCHANGED <<records, now, adminCalls, calls, shift, calculated,
                       homePage, editing, audit>>

(* What the aggregation is run on: shifts of 17:00-23:00 (300 regular and  *)
(* 60 night minutes), 10:00-12:00, 10:00-10:01 and an open one, of either  *)
(* employee, dated today or the day before.                                *)
AggregatedShifts ==
    {[checkIn |-> At(17, 0, 0), checkOut |-> At(23, 0, 0)],
     [checkIn |-> At(10, 0, 0), checkOut |-> At(12, 0, 0)],
     [checkIn |-> At(10, 0, 0), checkOut |-> At(10, 1, 0)],
     [checkIn |-> At(10, 0, 0), checkOut |-> NULL]}

AggregatedRecords ==
    {spread([userId |-> userId, date |-> date, checkIn |-> s.checkIn,
             checkOut |-> s.checkOut, breaks |-> <<>>, isModified |-> FALSE],
            calculateWorkMinutes(s.checkIn, s.checkOut, <<>>)) :
        userId \in Users,
        date \in {getTodayDateString(StartClock) - 1, getTodayDateString(StartClock)},
        s \in AggregatedShifts}

(* The employees the page has loaded, with their hourly rates. *)
EmployeeLists ==
    {<<>>,
     <<[uid |-> "u1", hourlyRate |-> 10000]>>,
     <<[uid |-> "u1", hourlyRate |-> 30], [uid |-> "u2", hourlyRate |-> 10000]>>}

(* The filters of the aggregation form: all employees or u1; no dates,     *)
(* the day before, today, both days.                                       *)
AggFilters ==
    {[userId |-> userId, startDate |-> d[1], endDate |-> d[2]] :
        userId \in {"", "u1"},
        d \in {<<NULL, getTodayDateString(StartClock)>>,
               <<getTodayDateString(StartClock) - 1, getTodayDateString(StartClock) - 1>>,
               <<getTodayDateString(StartClock), getTodayDateString(StartClock)>>,
               <<getTodayDateString(StartClock) - 1, getTodayDateString(StartClock)>>}}

----------------------------------------------------------------------------
(* The audit log helper buildChanges.  A JavaScript value is held with its *)
(* type: a number or a string by its text, an object by its entries in     *)
(* the order of its keys.                                                  *)

Num(text) == [type |-> "number", text |-> text, entries |-> <<>>]
Str(text) == [type |-> "string", text |-> text, entries |-> <<>>]
Null == [type |-> "null", text |-> "null", entries |-> <<>>]
Undefined == [type |-> "undefined", text |-> "undefined", entries |-> <<>>]
Obj(entries) == [type |-> "object", text |-> "", entries |-> entries]

(* JSON.stringify(undefined) is undefined: there is no text. *)
NoText == <<>>

(* JSON.stringify of a number, a string, null or undefined, as the         *)
(* sequence of the tokens of the text (the quotation mark is the token     *)
(* '').  NaN is written null.                                              *)
stringifyPrimitive(value) ==
    CASE value.type = "number" ->
            IF value.text = "NaN" THEN <<"null">> ELSE <<value.text>>
      [] value.type = "string" -> <<"''", value.text, "''">>
      [] value.type = "null" -> <<"null">>
      [] OTHER -> NoText

(* The members of an object are written in the order of its keys; a member *)
(* whose value is undefined is left out.                                   *)
RECURSIVE stringifyEntries(_, _)
stringifyEntries(entries, first) ==
    IF entries = <<>>
    THEN <<>>
    ELSE LET text == stringifyPrimitive(Head(entries).value)
         IN  IF text = NoText
             THEN stringifyEntries(Tail(entries), first)
             ELSE (IF first THEN <<>> ELSE <<",">>)
                    \o <<"''", Head(entries).key, "''", ":">> \o text
                    \o stringifyEntries(Tail(entries), FALSE)

JSONstringify(value) ==
    IF value.type = "object"
    THEN <<"{">> \o stringifyEntries(value.entries, TRUE) \o <<"}">>
    ELSE stringifyPrimitive(value)

(* object[key]: undefined when the object has no such key *)
valueAt(object, key) ==
    IF key \in DOMAIN object THEN object[key] ELSE Undefined

(* value ?? null *)
OrNull(value) ==
    IF value.type \in {"undefined", "null"} THEN Null ELSE value

(* Faulty variant: the keys of before are looked at as well. *)
keysOf_Both(before, afterUpdates) == DOMAIN before \cup DOMAIN afterUpdates

(* new Set([...Object.keys(afterUpdates)]) *)
keysOf(before, afterUpdates) == DOMAIN afterUpdates

buildChanges(before, afterUpdates) ==
    LET changed(key) ==
            JSONstringify(valueAt(before, key))
                # JSONstringify(valueAt(afterUpdates, key))
    IN  [key \in {k \in keysOf(before, afterUpdates) : changed(k)} |->
            [before |-> OrNull(valueAt(before, key)),
             after |-> OrNull(valueAt(afterUpdates, key))]]

(* buildChanges(before, afterUpdates) is called. *)
callBuildChanges ==
    /\ last.op # "buildChanges"
    /\ audit' = [audit EXCEPT
                    !.changes = buildChanges(audit.before, audit.afterUpdates)]
    /\ last' = Returned("buildChanges", "none", NoId, OK)
    /\ UNCHANGED <<records, now, adminCalls, calls, shift, calculated,
                   homePage, adminPage, editing>>

(* The values of a field: 1, 'old', null, NaN, undefined and a break held  *)
(* as { start, end } and as { end, start }.                                *)
FieldValues ==
    {Num("1"), Str("old"), Null, Num("NaN"), Undefined,
     Obj(<<[key |-> "start", value |-> Num("1")],
           [key |-> "end", value |-> Null]>>),
     Obj(<<[key |-> "end", value |-> Null],
           [key |-> "start", value |-> Num("1")]>>)}

(* The objects handed to buildChanges: any of the keys a and b, each with  *)
(* any of the values.                                                      *)
AuditObjects ==
    UNION {[keys -> FieldValues] : keys \in SUBSET {"a", "b"}}

----------------------------------------------------------------------------
(* The edit form of the admin page (app/admin/page.tsx).  The page's       *)
(* attendanceRecords are the records as fetched.                           *)

MaxPresses == 2         \* presses of the minimum-break helper on one form

(* date-fns differenceInMinutes: whole minutes, truncated towards zero *)
differenceInMinutes(later, earlier) ==
    IF later >= earlier
    THEN (later - earlier) \div 60
    ELSE 0 - ((earlier - later) \div 60)

(* breaks.reduce(...): a break without start or end adds nothing *)
RECURSIVE calcBreakMinutes(_)
calcBreakMinutes(breaks) ==
    IF breaks = <<>>
    THEN 0
    ELSE (IF Head(breaks).start = NULL \/ Head(breaks).end = NULL
          THEN 0
          ELSE differenceInMinutes(Head(breaks).end, Head(breaks).start))
         + calcBreakMinutes(Tail(breaks))

(* handleEditClick(record) *)
handleEditClick(recordId) ==
    /\ recordId \in DOMAIN records
    /\ editing.editingRecordId = NoId
    /\ editing' = [editingRecordId |-> recordId,
                   editingFormData |->
                        [checkIn |-> records[recordId].checkIn,
                         checkOut |-> records[recordId].checkOut,
                         breaks |-> records[recordId].breaks],
                   presses |-> 0]
    /\ last' = Returned("handleEditClick", records[recordId].userId, recordId, OK)
    /\ UNCHANGED <<records, now, adminCalls, calls, shift, calculated,
                   homePage, adminPage, audit>>

(* checkOutTs with the date moved to the next day when it is not after     *)
(* check-in: corrected.setDate(corrected.getDate() + 1)                    *)
normalizedCheckOut(checkInTs, checkOutTs) ==
    IF checkOutTs <= checkInTs THEN checkOutTs + 86400 ELSE checkOutTs

(* Faulty variant: the break starts missing minutes before check-out even  *)
(* when that is before check-in.                                           *)
breakStart_Uncapped(checkIn, checkOut, missing) == checkOut - missing * 60

(* startDate: missing minutes before check-out, capped at check-in *)
breakStart(checkIn, checkOut, missing) ==
    IF checkOut - missing * 60 < checkIn
    THEN checkIn
    ELSE checkOut - missing * 60

(* handleEnsureMinimumBreak(requiredMinutes) *)
handleEnsureMinimumBreak(requiredMinutes) ==
    LET form == editing.editingFormData
        alert(message) ==
            last' = Returned("handleEnsureMinimumBreak", "none",
                             editing.editingRecordId, message)
    IN  /\ editing.editingRecordId \in DOMAIN records
        /\ editing.presses < MaxPresses
        /\ LET currentRecord == records[editing.editingRecordId]
               checkInTs == OrCurrent(form, "checkIn", currentRecord)
               checkOutTs == OrCurrent(form, "checkOut", currentRecord)
           IN  IF checkInTs = NULL \/ checkOutTs = NULL
               THEN /\ alert("alert: enter check-in and check-out first")
                    /\ editing' = [editing EXCEPT !.presses = @ + 1]
               ELSE LET checkOut == normalizedCheckOut(checkInTs, checkOutTs)
                        normalized ==
                            IF checkOutTs <= checkInTs
                            THEN spread(form, [checkOut |-> checkOut])
                            ELSE form
                        existingBreaks ==
                            IF Has(form, "breaks") THEN form.breaks
                            ELSE currentRecord.breaks
                        missing ==
                            requiredMinutes - calcBreakMinutes(existingBreaks)
                        newBreak ==
                            [start |-> breakStart(checkInTs, checkOut, missing),
                             end |-> checkOut]
                    IN  IF missing <= 0
                        THEN /\ alert("alert: the break minutes are there already")
                             /\ editing' =
                                    [editing EXCEPT !.presses = @ + 1,
                                                    !.editingFormData = normalized]
                        ELSE IF checkOut <= checkInTs
                        THEN /\ alert("alert: check-out is not after check-in")
                             /\ editing' =
                                    [editing EXCEPT !.presses = @ + 1,
                                                    !.editingFormData = normalized]
                        ELSE /\ last' = Returned("handleEnsureMinimumBreak", "none",
                                                 editing.editingRecordId, OK)
                             /\ editing' =
                                    [editing EXCEPT
                                        !.presses = @ + 1,
                                        !.editingFormData =
                                            spread(normalized,
                                                   [breaks |->
                                                        Append(existingBreaks,
                                                               newBreak)])]
        /\ UNCHANGED <<records, now, adminCalls, calls, shift, calculated,
                       homePage, adminPage, audit>>

(* The records that are edited: check-in at 14:00, or at 0:00 two days     *)
(* later; no check-out, or one at 14:20:30, 15:00 or 22:30, or at 13:00 or *)
(* 10:00 of the first day, which is before check-in; no break, an open     *)
(* break, a break of 30 minutes, two of 30 minutes, a break that ends      *)
(* before it starts.                                                       *)
EditedRecords ==
    {spread([userId |-> "u1", date |-> getTodayDateString(checkIn),
             checkIn |-> checkIn, checkOut |-> checkOut, breaks |-> breaks,
             isModified |-> FALSE],
            calculateWorkMinutes(checkIn, checkOut, breaks)) :
        checkIn \in {At(14, 0, 0), At(48, 0, 0)},
        checkOut \in {NULL, At(14, 20, 30), At(15, 0, 0), At(22, 30, 0),
                      At(13, 0, 0), At(10, 0, 0)},
        breaks \in {<<>>,
                    <<Break(At(14, 10, 0), NULL)>>,
                    <<Break(At(14, 10, 0), At(14, 40, 0))>>,
                    <<Break(At(14, 10, 0), At(14, 40, 0)),
                      Break(At(14, 45, 0), At(15, 15, 0))>>,
                    <<Break(At(14, 40, 0), At(14, 10, 0))>>}}

----------------------------------------------------------------------------
(* The dashboard: getRelevantAttendanceRecordsForDashboard and the         *)
(* HomePage that shows its result (app/page.tsx).                          *)

ErrFailedDashboard ==
    "Failed to fetch relevant attendance records for dashboard."

(* { id: doc.id, ...doc.data() } *)
withId(recs, id) == spread([id |-> id], recs[id])

(* The documents of a snapshot come in the order of their document ids,    *)
(* which addDoc draws at random: order[i] is the document that is i-th in  *)
(* that order.                                                             *)
docsInOrder(recs, order) == [i \in DOMAIN recs |-> withId(recs, order[i])]

(* getDocs(query(attendanceCol, where('date', '==', todayStr))) *)
todayStartedSnapshot(recs, order, todayStr) ==
    SelectSeq(docsInOrder(recs, order), LAMBDA record : record.date = todayStr)

(* getDocs(query(attendanceCol, where('checkOut', '==', null))) *)
openSessionsSnapshot(recs, order) ==
    SelectSeq(docsInOrder(recs, order), LAMBDA record : record.checkOut = NULL)

(* record.checkIn.toMillis() > existing.checkIn.toMillis() *)
replaces(record, existing) == record.checkIn > existing.checkIn

(* The body of allRelevantRecords.forEach: the Map consolidatedRecords is  *)
(* held as the sequence of its values, in the order of insertion of their  *)
(* keys.                                                                   *)
consolidate(consolidatedRecords, record) ==
    IF \E i \in DOMAIN consolidatedRecords :
            consolidatedRecords[i].userId = record.userId
    THEN LET i == CHOOSE i \in DOMAIN consolidatedRecords :
                        consolidatedRecords[i].userId = record.userId
         IN  IF replaces(record, consolidatedRecords[i])
             THEN [consolidatedRecords EXCEPT ![i] = record]
             ELSE consolidatedRecords
    ELSE Append(consolidatedRecords, record)

RECURSIVE forEachRelevant(_, _)
forEachRelevant(allRelevantRecords, consolidatedRecords) ==
    IF allRelevantRecords = <<>>
    THEN consolidatedRecords
    ELSE forEachRelevant(Tail(allRelevantRecords),
                         consolidate(consolidatedRecords,
                                     Head(allRelevantRecords)))

(* The records started today followed by the open ones. *)
allRelevantRecords(recs, order, todayStr) ==
    todayStartedSnapshot(recs, order, todayStr)
        \o openSessionsSnapshot(recs, order)

(* toMillis() of a null checkIn throws; it is called on a record and on    *)
(* the one kept for its employee, that is when an employee has two         *)
(* relevant records, or one that is both of today and open.                *)
toMillisThrows(relevant) ==
    \E i, j \in DOMAIN relevant :
        /\ i < j
        /\ relevant[i].userId = relevant[j].userId
        /\ relevant[i].checkIn = NULL \/ relevant[j].checkIn = NULL

getRelevantAttendanceRecordsForDashboard(recs, order, todayStr) ==
    forEachRelevant(allRelevantRecords(recs, order, todayStr), <<>>)

(* new Map(relevantAttendance.map(a => [a.userId, a])): of two records of  *)
(* one employee the later in the array stays.                              *)
attendanceMap(relevantAttendance) ==
    [userId \in {relevantAttendance[i].userId : i \in DOMAIN relevantAttendance} |->
        relevantAttendance[
            CHOOSE i \in DOMAIN relevantAttendance :
                /\ relevantAttendance[i].userId = userId
                /\ \A j \in DOMAIN relevantAttendance :
                        relevantAttendance[j].userId = userId => j <= i]]

(* fetchAllData: the dashboard is loaded at the instant now. *)
fetchAllData ==
    /\ homePage.loading
    /\ \E order \in Permutations(DOMAIN records) :
        IF toMillisThrows(allRelevantRecords(records, order,
                                             getTodayDateString(now)))
        THEN /\ homePage' = [homePage EXCEPT !.loading = FALSE]
             /\ last' = Returned("fetchAllData", "none", NoId, ErrFailedDashboard)
        ELSE LET relevantAttendance ==
                    getRelevantAttendanceRecordsForDashboard(
                        records, order, getTodayDateString(now))
             IN  /\ homePage' = [loading |-> FALSE,
                                 relevantAttendance |-> relevantAttendance,
                                 attendance |-> attendanceMap(relevantAttendance)]
                 /\ last' = Returned("fetchAllData", "none", NoId, OK)
    /\ UNCHANGED <<records, now, adminCalls, calls, shift, calculated,
                   adminPage, editing, audit>>

(* canClockIn and isClockedIn of an employee's card *)
canClockIn(attendance, uid) ==
    \/ uid \notin DOMAIN attendance
    \/ (attendance[uid].checkIn # NULL /\ attendance[uid].checkOut # NULL)

isClockedIn(attendance, uid) ==
    /\ uid \in DOMAIN attendance
    /\ attendance[uid].checkIn # NULL
    /\ attendance[uid].checkOut = NULL

----------------------------------------------------------------------------
(* The calculator on its own.  Instants have second resolution: checkIn is *)
(* serverTimestamp() and checkOut is Timestamp.now().                      *)

CheckIns == {At(10, 0, 0), At(10, 0, 30), At(21, 59, 30), At(22, 0, 0)}

CheckOuts ==
    {At(10, 0, 30), At(10, 1, 10), At(12, 0, 0), At(24, 0, 0), At(29, 0, 30),
     At(34, 0, 0)}

(* No break; one break; two breaks that overlap; two breaks that touch;    *)
(* a break that is not on whole minutes; a break in the night.             *)
BreakLists ==
    {<<>>,
     <<Break(At(10, 30, 0), At(11, 0, 0))>>,
     <<Break(At(10, 30, 0), At(11, 0, 0)), Break(At(10, 45, 0), At(11, 15, 0))>>,
     <<Break(At(10, 30, 0), At(11, 0, 0)), Break(At(11, 0, 0), At(11, 30, 0))>>,
     <<Break(At(10, 30, 30), At(10, 31, 10))>>,
     <<Break(At(22, 30, 0), At(23, 30, 0))>>}

ShiftInputs == [checkIn : CheckIns, checkOut : CheckOuts, breaks : BreakLists]

(* Nothing handed to the calculator; nothing returned by it. *)
NoShift == [checkIn |-> NULL, checkOut |-> NULL, breaks |-> <<>>]
NotCalculated ==
    [regularWorkMinutes |-> NULL, nightWorkMinutes |-> NULL,
     totalWorkMinutes |-> NULL]

(* calculateWorkMinutes(checkIn, checkOut, breaks) is called. *)
calculate ==
    /\ calculated = NotCalculated
    /\ calculated' = calculateWorkMinutes(shift.checkIn, shift.checkOut,
                                          shift.breaks)
    /\ UNCHANGED <<records, now, last, adminCalls, calls, shift, pages>>

(* The collection is empty, no call is in flight and nothing was handed to *)
(* the calculator.                                                         *)
InitStore ==
    /\ records = <<>>
    /\ now = StartClock
    /\ last = Returned("none", "none", NoId, OK)
    /\ adminCalls = 0

(* The pages as they are when mounted: nothing fetched, nothing edited. *)
NoHomePage == [loading |-> TRUE, relevantAttendance |-> <<>>, attendance |-> <<>>]
NoAdminPage ==
    [employees |-> <<>>,
     aggFilters |-> [userId |-> "", startDate |-> NULL, endDate |-> NULL],
     aggregatedResults |-> <<>>]
NoEditing == [editingRecordId |-> NoId, editingFormData |-> <<>>, presses |-> 0]
NoAudit == [before |-> <<>>, afterUpdates |-> <<>>, changes |-> <<>>]

InitPages ==
    /\ homePage = NoHomePage
    /\ adminPage = NoAdminPage
    /\ editing = NoEditing
    /\ audit = NoAudit

Init ==
    /\ InitStore
    /\ calls = [p \in Terminals |-> NoCall]
    /\ shift = NoShift
    /\ calculated = NotCalculated
    /\ InitPages

(* Each call runs from its first step to its return with no other call in  *)
(* between: no call is ever in flight between two steps.                   *)
OneAtATime == UNCHANGED <<calls, shift, calculated, pages>>

Lifecycle(users) ==
    \E userId \in users, at \in Instants :
        \/ clockIn(userId, at) /\ OneAtATime
        \/ startBreak(userId, at) /\ OneAtATime
        \/ endBreak(userId, at) /\ OneAtATime
        \/ clockOut(userId, at) /\ OneAtATime

(* Both employees use the terminal; no administrator acts. *)
NextLifecycle == Lifecycle(Users)

SpecLifecycle == Init /\ [][NextLifecycle]_vars

NextAdmin ==
    \/ \E recordId \in 1 .. MaxRecords, updatedFields \in UpdateInputs :
            updateAttendanceRecord(recordId, updatedFields) /\ OneAtATime
    \/ \E recordId \in 1 .. MaxRecords, updatedFields \in UpdateInputs :
            updateAttendanceRecordRejected(recordId, updatedFields) /\ OneAtATime
    \/ \E newRecordData \in AddInputs :
            addAttendanceRecord(newRecordData) /\ OneAtATime

(* One employee uses the terminal while the administrator adds and edits  *)
(* records of both employees.                                              *)
Next == Lifecycle({"u1"}) \/ NextAdmin

Spec == Init /\ [][Next]_vars

(* One employee's calls are made at two terminals and their steps          *)
(* interleave; no administrator acts.                                      *)
NextInterleaved ==
    \E t \in Terminals :
        \/ \E op \in LifecycleOps, at \in Instants :
                awaitOpenAttendanceId(t, op, "u1", at)
        \/ \E at \in Instants : awaitDocSnap(t, at)
        \/ awaitUpdateDoc(t)
        \/ \E at \in Instants : awaitAddDoc(t, at)

SpecInterleaved == Init /\ [][NextInterleaved]_vars

(* The calculator is called once with a shift out of ShiftInputs. *)
InitCalculator ==
    /\ InitStore
    /\ calls = [p \in Terminals |-> NoCall]
    /\ shift \in ShiftInputs
    /\ calculated = NotCalculated
    /\ InitPages

NextCalculator == calculate

SpecCalculator == InitCalculator /\ [][NextCalculator]_vars

(* The aggregation form is submitted once, over a collection of up to      *)
(* MaxRecords records out of AggregatedRecords.                            *)
InitAggregate ==
    /\ records \in UNION {[1 .. n -> AggregatedRecords] : n \in 0 .. MaxRecords}
    /\ now = StartClock
    /\ last = Returned("none", "none", NoId, OK)
    /\ adminCalls = 0
    /\ calls = [p \in Terminals |-> NoCall]
    /\ shift = NoShift
    /\ calculated = NotCalculated
    /\ homePage = NoHomePage
    /\ adminPage \in [employees : EmployeeLists, aggFilters : AggFilters,
                      aggregatedResults : {<<>>}]
    /\ editing = NoEditing
    /\ audit = NoAudit

NextAggregate == handleAggregate

SpecAggregate == InitAggregate /\ [][NextAggregate]_vars

(* buildChanges is called once with two objects out of AuditObjects. *)
InitAudit ==
    /\ InitStore
    /\ calls = [p \in Terminals |-> NoCall]
    /\ shift = NoShift
    /\ calculated = NotCalculated
    /\ homePage = NoHomePage
    /\ adminPage = NoAdminPage
    /\ editing = NoEditing
    /\ audit \in [before : AuditObjects, afterUpdates : AuditObjects,
                  changes : {<<>>}]

NextAudit == callBuildChanges

SpecAudit == InitAudit /\ [][NextAudit]_vars

(* The administrator opens the edit form of a record out of EditedRecords  *)
(* and presses the minimum-break helper, which asks for 60 minutes.        *)
InitEditForm ==
    /\ records \in {<<record>> : record \in EditedRecords}
    /\ now = StartClock
    /\ last = Returned("none", "none", NoId, OK)
    /\ adminCalls = 0
    /\ calls = [p \in Terminals |-> NoCall]
    /\ shift = NoShift
    /\ calculated = NotCalculated
    /\ InitPages

NextEditForm ==
    \/ \E recordId \in 1 .. MaxRecords : handleEditClick(recordId)
    \/ handleEnsureMinimumBreak(60)

SpecEditForm == InitEditForm /\ [][NextEditForm]_vars

(* One employee clocks in and out (breaks do not enter what the dashboard  *)
(* offers) while the administrator adds and edits records of both          *)
(* employees; then the dashboard is loaded, and shown as loaded.           *)
NextDashboard ==
    \/ \E at \in Instants :
            homePage.loading /\ clockIn("u1", at) /\ OneAtATime
    \/ \E at \in Instants :
            homePage.loading /\ clockOut("u1", at) /\ OneAtATime
    \/ \E recordId \in 1 .. MaxRecords, updatedFields \in UpdateInputs :
            /\ homePage.loading
            /\ updateAttendanceRecord(recordId, updatedFields)
            /\ OneAtATime
    \/ \E recordId \in 1 .. MaxRecords, updatedFields \in UpdateInputs :
            /\ homePage.loading
            /\ updateAttendanceRecordRejected(recordId, updatedFields)
            /\ OneAtATime
    \/ \E newRecordData \in AddInputs :
            /\ homePage.loading
            /\ addAttendanceRecord(newRecordData)
            /\ OneAtATime
    \/ fetchAllData

SpecDashboard == Init /\ [][NextDashboard]_vars

----------------------------------------------------------------------------
(* Vocabulary of the properties *)

OpenRecordsOf(recs, userId) ==
    {id \in DOMAIN recs : recs[id].userId = userId /\ recs[id].checkOut = NULL}

OpenBreaksOf(breaks) == {i \in DOMAIN breaks : breaks[i].end = NULL}

(* Whole minutes from instant a to instant b. *)
MinutesBetween(a, b) == (b - a) \div 60

(* Sum of the minutes of the closed breaks. *)
RECURSIVE BreakMinutes(_)
BreakMinutes(breaks) ==
    IF breaks = <<>> THEN 0
    ELSE (IF Head(breaks).end = NULL THEN 0
          ELSE MinutesBetween(Head(breaks).start, Head(breaks).end))
         + BreakMinutes(Tail(breaks))

(* breaks with every open break closed at the instant t. *)
ClosedAt(breaks, t) ==
    [i \in DOMAIN breaks |->
        IF breaks[i].end = NULL THEN [breaks[i] EXCEPT !.end = t] ELSE breaks[i]]

(* The statutory rule: 8 hours worked, 60 minutes of break. *)
NeedsTopUp(workMinutes, breakMinutes) ==
    workMinutes >= 8 * 60 /\ breakMinutes < 60

Succeeded(op) == last.op = op /\ last.result = OK

----------------------------------------------------------------------------
(* C1: a clockIn call for an employee who has an open record (checkOut =   *)
(* null) returns the already-clocked-in error and leaves the collection    *)
(* as it was; so a second clockIn without a clockOut in between fails.     *)
C1_ClockInWhileOpenFails ==
    [][\A userId \in Users :
          (last'.op = "clockIn" /\ last'.userId = userId
              /\ OpenRecordsOf(records, userId) # {})
          => (last'.result = ErrAlreadyClockedIn /\ records' = records)]_vars

C1_Witness ==
    /\ last.op = "clockIn"
    /\ last.result = ErrAlreadyClockedIn
    /\ OpenRecordsOf(records, last.userId) # {}

(* C2: with only clockIn, startBreak, endBreak and clockOut called, one    *)
(* at a time, every employee has at most one record with checkOut = null.  *)
C2_AtMostOneOpenRecord ==
    \A userId \in Users : Cardinality(OpenRecordsOf(records, userId)) <= 1

(* An employee clocked in again after a clock-out: a closed and an open    *)
(* record of the same employee.                                            *)
C2_Witness ==
    /\ Succeeded("clockIn")
    /\ \E id \in DOMAIN records :
          records[id].userId = last.userId /\ records[id].checkOut # NULL
    /\ OpenRecordsOf(records, last.userId) # {}

(* C3: clockOut fails with the not-clocked-in error when the employee has  *)
(* no open record; otherwise it succeeds, sets checkOut of the open record *)
(* to the clock-out instant, closes every break that was still open at     *)
(* that instant, and the employee has no open record afterwards.           *)
C3_ClockOutCloses ==
    [][\A userId \in Users :
          (last'.op = "clockOut" /\ last'.userId = userId)
          => IF OpenRecordsOf(records, userId) = {}
             THEN last'.result = ErrNotClockedInOut /\ records' = records
             ELSE /\ last'.result = OK
                  /\ last'.id \in OpenRecordsOf(records, userId)
                  /\ records'[last'.id].checkOut = now'
                  /\ records'[last'.id].breaks
                        = ClosedAt(records[last'.id].breaks, now')
                  /\ OpenRecordsOf(records', userId) = {}]_vars

(* C4: when clockOut closes a record whose worked minutes (elapsed minus   *)
(* closed-break minutes) are >= 480 with fewer than 60 break minutes, the  *)
(* stored checkOut is the clock-out instant plus (60 - breakMinutes)       *)
(* minutes and the stored breaks end with a synthetic break from the       *)
(* clock-out instant to the stored checkOut.                               *)
C4_TopUpAtClockOut ==
    [][(last'.op = "clockOut" /\ last'.result = OK
           /\ records[last'.id].checkIn # NULL)
       => LET before == records[last'.id]
              after == records'[last'.id]
              breaks == ClosedAt(before.breaks, now')
              breakMinutes == BreakMinutes(breaks)
              workMinutes == MinutesBetween(before.checkIn, now') - breakMinutes
              pushed == now' + (60 - breakMinutes) * 60
          IN  NeedsTopUp(workMinutes, breakMinutes)
              => /\ after.checkOut = pushed
                 /\ after.breaks
                       = Append(breaks, [start |-> now', end |-> pushed])]_vars

(* C5: a record closed by clockOut with stored totalWorkMinutes >= 480 has *)
(* at least 60 minutes of closed breaks, and its totalWorkMinutes is the   *)
(* time worked up to the clock-out instant (elapsed minus breaks).         *)
C5_EightHoursHaveBreak ==
    [][(last'.op = "clockOut" /\ last'.result = OK
           /\ records[last'.id].checkIn # NULL)
       => LET before == records[last'.id]
              after == records'[last'.id]
              worked == MinutesBetween(before.checkIn, now')
                          - BreakMinutes(ClosedAt(before.breaks, now'))
          IN  after.totalWorkMinutes >= 8 * 60
              => /\ BreakMinutes(after.breaks) >= 60
                 /\ after.totalWorkMinutes = worked]_vars

(* C6: after an administrative edit that leaves the record with a checkOut,*)
(* a record with >= 480 worked minutes has at least 60 break minutes.      *)
C6_TopUpAtEdit ==
    Succeeded("updateAttendanceRecord")
    => LET record == records[last.id]
           breakMinutes == BreakMinutes(record.breaks)
       IN  (record.checkIn # NULL /\ record.checkOut # NULL
               /\ MinutesBetween(record.checkIn, record.checkOut) - breakMinutes
                     >= 8 * 60)
           => breakMinutes >= 60

(* C7: every record's stored regular, night and total minutes are what the *)
(* calculator gives for the record's stored checkIn, checkOut and breaks.  *)
C7_DerivedFieldsCurrent ==
    \A id \in DOMAIN records :
        currentWorkMinutes(records[id])
            = calculateWorkMinutes(records[id].checkIn, records[id].checkOut,
                                   records[id].breaks)

(* C8: startBreak fails with the not-clocked-in error when the employee    *)
(* has no open record and with the already-on-break error when the most    *)
(* recent open record has a break with end = null; otherwise it appends    *)
(* the one break {start: now, end: null} to that record's breaks and       *)
(* changes nothing else.                                                   *)
C8_StartBreak ==
    [][\A userId \in Users :
          (last'.op = "startBreak" /\ last'.userId = userId)
          => IF OpenRecordsOf(records, userId) = {}
             THEN last'.result = ErrNotClockedInStartBreak /\ records' = records
             ELSE /\ last'.id \in OpenRecordsOf(records, userId)
                  /\ \A o \in OpenRecordsOf(records, userId) :
                        records[o].checkIn <= records[last'.id].checkIn
                  /\ IF OpenBreaksOf(records[last'.id].breaks) # {}
                     THEN last'.result = ErrAlreadyOnBreak /\ records' = records
                     ELSE /\ last'.result = OK
                          /\ records' = [records EXCEPT ![last'.id].breaks =
                                Append(@, [start |-> now', end |-> NULL])]]_vars

(* A break was started in a record that already holds a break. *)
C8_Witness ==
    /\ Succeeded("startBreak")
    /\ Len(records[last.id].breaks) = 2
    /\ records[last.id].breaks[2] = [start |-> now, end |-> NULL]

(* C9: endBreak fails with the not-clocked-in error when the employee has  *)
(* no open record and with the not-on-break error when the most recent     *)
(* open record has no break with end = null; otherwise it sets end = now   *)
(* on an open break of that record and changes nothing else.               *)
C9_EndBreak ==
    [][\A userId \in Users :
          (last'.op = "endBreak" /\ last'.userId = userId)
          => IF OpenRecordsOf(records, userId) = {}
             THEN last'.result = ErrNotClockedInEndBreak /\ records' = records
             ELSE /\ last'.id \in OpenRecordsOf(records, userId)
                  /\ \A o \in OpenRecordsOf(records, userId) :
                        records[o].checkIn <= records[last'.id].checkIn
                  /\ IF OpenBreaksOf(records[last'.id].breaks) = {}
                     THEN last'.result = ErrNotOnBreak /\ records' = records
                     ELSE /\ last'.result = OK
                          /\ \E i \in OpenBreaksOf(records[last'.id].breaks) :
                                records' = [records EXCEPT
                                    ![last'.id].breaks[i].end = now']]_vars

(* A break was ended in a record that holds another break. *)
C9_Witness ==
    /\ Succeeded("endBreak")
    /\ Len(records[last.id].breaks) = 2
    /\ \E i \in DOMAIN records[last.id].breaks :
          records[last.id].breaks[i].end = now

(* C10: every record holds at most one break with end = null. *)
C10_AtMostOneOpenBreak ==
    \A id \in DOMAIN records :
        Cardinality(OpenBreaksOf(records[id].breaks)) <= 1

(* The latest call made at terminal t was op and it returned success. *)
ReturnedOK(t, op) ==
    calls[t].op = op /\ calls[t].pc = "idle" /\ calls[t].result = OK

(* C11: two clockIn calls for the same employee never both succeed with no *)
(* clockOut between them, also when their steps interleave: the records    *)
(* created by two successful clockIn calls of one employee, made at two    *)
(* terminals, are never both open.                                         *)
C11_ConcurrentClockInsExclude ==
    \A t1, t2 \in Terminals :
        (/\ t1 # t2
         /\ ReturnedOK(t1, "clockIn")
         /\ ReturnedOK(t2, "clockIn")
         /\ calls[t1].userId = calls[t2].userId)
        => ~(/\ records[calls[t1].id].checkOut = NULL
             /\ records[calls[t2].id].checkOut = NULL)

(* C12: no update of a record's breaks is lost when the steps of calls     *)
(* interleave: the break of every startBreak that returned success is in   *)
(* the stored record, two successful startBreak calls on one record leave  *)
(* two breaks, and the end time of every endBreak that returned success    *)
(* is stored.                                                              *)
C12_NoLostBreakUpdate ==
    /\ \A t \in Terminals :
          ReturnedOK(t, "startBreak")
          => \E i \in DOMAIN records[calls[t].id].breaks :
                records[calls[t].id].breaks[i].start = calls[t].at
    /\ \A t \in Terminals :
          ReturnedOK(t, "endBreak")
          => \E i \in DOMAIN records[calls[t].id].breaks :
                records[calls[t].id].breaks[i].end = calls[t].at
    /\ \A t1, t2 \in Terminals :
          (/\ t1 # t2
           /\ ReturnedOK(t1, "startBreak")
           /\ ReturnedOK(t2, "startBreak")
           /\ calls[t1].id = calls[t2].id)
          => Len(records[calls[t1].id].breaks) >= 2

(* C13: a successful clockIn creates exactly one new record, of that       *)
(* employee, with checkIn = now, checkOut = null, breaks = [], isModified  *)
(* = false and regular, night and total minutes 0, and changes no record   *)
(* that existed before.                                                    *)
C13_ClockInCreatesOneRecord ==
    [][(last'.op = "clockIn" /\ last'.result = OK)
       => /\ Len(records') = Len(records) + 1
          /\ SubSeq(records', 1, Len(records)) = records
          /\ last'.id = Len(records')
          /\ records'[Len(records')] =
                [userId |-> last'.userId,
                 date |-> getTodayDateString(now'),
                 checkIn |-> now',
                 checkOut |-> NULL,
                 breaks |-> <<>>,
                 isModified |-> FALSE,
                 regularWorkMinutes |-> 0,
                 nightWorkMinutes |-> 0,
                 totalWorkMinutes |-> 0]]_vars

(* A clockIn succeeded while the collection held another record. *)
C13_Witness ==
    /\ Succeeded("clockIn")
    /\ last.id = 2
    /\ records[2].checkOut = NULL
    /\ records[2].breaks = <<>>

(* The records of the employee, and the one created last. *)
RecordsOf(recs, userId) == {id \in DOMAIN recs : recs[id].userId = userId}

LatestOf(recs, userId) ==
    CHOOSE id \in RecordsOf(recs, userId) :
        \A o \in RecordsOf(recs, userId) : o <= id

(* C14: once a record's checkOut is non-null, no clockIn, startBreak,      *)
(* endBreak or clockOut call changes any field of it (so its checkOut      *)
(* never goes back to null); and a clockOut call of an employee whose      *)
(* latest record is closed, that is with no clockIn since the clockOut     *)
(* that closed it, fails with the not-clocked-in error.                    *)
C14_ClosedStaysClosed ==
    [][/\ \A id \in DOMAIN records :
             records[id].checkOut # NULL => records'[id] = records[id]
       /\ \A userId \in Users :
             (/\ last'.op = "clockOut"
              /\ last'.userId = userId
              /\ RecordsOf(records, userId) # {}
              /\ records[LatestOf(records, userId)].checkOut # NULL)
             => last'.result = ErrNotClockedInOut]_vars

(* A clockOut was called again after the clockOut that closed the record. *)
C14_Witness ==
    /\ last.op = "clockOut"
    /\ last.result = ErrNotClockedInOut
    /\ RecordsOf(records, last.userId) # {}
    /\ records[LatestOf(records, last.userId)].checkOut # NULL

(* The call of terminal t returns in this step, with an error or not. *)
ReturnsError(t) ==
    calls'[t] # calls[t] /\ calls'[t].pc = "idle" /\ calls'[t].result # OK

ReturnsOK(t) ==
    calls'[t] # calls[t] /\ calls'[t].pc = "idle" /\ calls'[t].result = OK

(* C15: a lifecycle call that returns an error has changed no stored       *)
(* record, and a call that succeeds commits its whole change in one write: *)
(* the collection changes only in the step in which a call returns         *)
(* success, and that step of a clockOut stores checkOut, the closed breaks *)
(* and the minutes calculated from them together.                          *)
C15_AllOrNothing ==
    [][\A t \in Terminals :
          calls'[t] # calls[t]
          => /\ ReturnsError(t) => records' = records
             /\ records' # records => ReturnsOK(t)
             /\ (ReturnsOK(t) /\ calls'[t].op = "clockOut")
                => LET record == records'[calls'[t].id]
                   IN  /\ record.checkOut = calls'[t].at
                       /\ OpenBreaksOf(record.breaks) = {}
                       /\ currentWorkMinutes(record)
                             = calculateWorkMinutes(record.checkIn,
                                   record.checkOut, record.breaks)]_vars

(* A clockOut closed a break and stored worked minutes, and the latest     *)
(* call at another terminal returned an error.                             *)
C15_Witness ==
    \E t1, t2 \in Terminals :
        /\ ReturnedOK(t1, "clockOut")
        /\ records[calls[t1].id].totalWorkMinutes > 0
        /\ \E i \in DOMAIN records[calls[t1].id].breaks :
              records[calls[t1].id].breaks[i].end = calls[t1].at
        /\ calls[t2].op \in LifecycleOps
        /\ calls[t2].pc = "idle"
        /\ calls[t2].result # OK

(* The errors that state a broken business rule. *)
BusinessRuleErrors ==
    {ErrAlreadyClockedIn, ErrAlreadyOnBreak, ErrNotOnBreak, ErrCheckInRequired,
     ErrRecordNotFound} \cup NotClockedInErrors

(* C16: updateAttendanceRecord reports distinct error kinds: a call with a *)
(* record id that does not exist returns the not-found error, and what the *)
(* caller sees of it differs from what it sees of a call that the store    *)
(* rejected; a call that the store rejected never returns a business-rule  *)
(* error.                                                                  *)
C16_DistinctErrorKinds ==
    [][\A recordId \in 1 .. MaxRecords, updatedFields \in UpdateInputs :
          /\ (/\ recordId \notin DOMAIN records
              /\ updateAttendanceRecord(recordId, updatedFields))
             => /\ last'.result = ErrRecordNotFound
                /\ ~updateAttendanceRecordRejected(recordId, updatedFields)
          /\ updateAttendanceRecordRejected(recordId, updatedFields)
             => last'.result \notin BusinessRuleErrors]_vars

(* C17: an administrative edit that supplies a null checkIn fails with the *)
(* validation error and leaves the stored record as it was; so does an     *)
(* added record without checkIn.                                           *)
C17_EditWithoutCheckInFails ==
    [][/\ \A recordId \in 1 .. MaxRecords, updatedFields \in UpdateInputs :
             (/\ recordId \in DOMAIN records
              /\ Has(updatedFields, "checkIn")
              /\ updatedFields.checkIn = NULL
              /\ updateAttendanceRecord(recordId, updatedFields))
             => (last'.result = ErrCheckInRequired /\ records' = records)
       /\ \A newRecordData \in AddInputs :
             (newRecordData.checkIn = NULL /\ addAttendanceRecord(newRecordData))
             => (last'.result = ErrCheckInRequired /\ records' = records)]_vars

(* The instants at which the minutes of a shift start: those of            *)
(* [checkIn, checkOut) when checkIn is on a whole minute, and in general   *)
(* those from the start of checkIn's minute up to checkOut.                *)
MinuteStarts(checkIn, checkOut) ==
    LET first == checkIn - (checkIn % 60)
    IN  {first + 60 * k : k \in 0 .. (((checkOut - first) + 59) \div 60) - 1}

NightHours == {22, 23, 0, 1, 2, 3, 4}

LocalHour(t) == (t \div 3600) % 24

(* Every break is closed and lies inside [checkIn, checkOut). *)
BreaksInside(s) ==
    \A i \in DOMAIN s.breaks :
        /\ s.breaks[i].end # NULL
        /\ s.checkIn <= s.breaks[i].start
        /\ s.breaks[i].start <= s.breaks[i].end
        /\ s.breaks[i].end <= s.checkOut

(* No two breaks share an instant. *)
BreaksDisjoint(s) ==
    \A i, j \in DOMAIN s.breaks :
        i < j => (s.breaks[i].end <= s.breaks[j].start
                    \/ s.breaks[j].end <= s.breaks[i].start)

(* checkIn, checkOut and the breaks are on whole minutes. *)
OnWholeMinutes(s) ==
    /\ s.checkIn % 60 = 0
    /\ s.checkOut % 60 = 0
    /\ \A i \in DOMAIN s.breaks :
          s.breaks[i].start % 60 = 0 /\ s.breaks[i].end % 60 = 0

(* The minutes of the shift that lie in at least one break. *)
MinutesInBreaks(s) ==
    {m \in MinuteStarts(s.checkIn, s.checkOut) :
        \E i \in DOMAIN s.breaks :
            s.breaks[i].start <= m /\ m < s.breaks[i].end}

(* C18: for checkIn <= checkOut with second resolution and no breaks,      *)
(* regularWorkMinutes + nightWorkMinutes is floor((checkOut - checkIn) /   *)
(* 60 s).                                                                  *)
C18_WholeElapsedMinutes ==
    (/\ calculated # NotCalculated
     /\ shift.breaks = <<>>
     /\ shift.checkIn <= shift.checkOut)
    => calculated.regularWorkMinutes + calculated.nightWorkMinutes
          = MinutesBetween(shift.checkIn, shift.checkOut)

C20_NightMinutes ==
    (calculated # NotCalculated /\ shift.breaks = <<>>)
    => LET minutes == MinuteStarts(shift.checkIn, shift.checkOut)
           night == {m \in minutes : LocalHour(m) \in NightHours}
       IN  /\ calculated.nightWorkMinutes = Cardinality(night)
           /\ calculated.regularWorkMinutes = Cardinality(minutes \ night)
           /\ (shift.checkIn = At(22, 0, 0) /\ shift.checkOut = At(34, 0, 0))
                 => calculated = [regularWorkMinutes |-> 300,
                                  nightWorkMinutes |-> 420,
                                  totalWorkMinutes |-> 720]
           /\ (shift.checkIn = At(10, 0, 0) /\ shift.checkOut = At(24, 0, 0))
                 => calculated = [regularWorkMinutes |-> 720,
                                  nightWorkMinutes |-> 120,
                                  totalWorkMinutes |-> 840]

(* The shift from 22:00 to 10:00 of the next day was calculated. *)
C20_Witness ==
    /\ calculated # NotCalculated
    /\ shift = [checkIn |-> At(22, 0, 0), checkOut |-> At(34, 0, 0),
                breaks |-> <<>>]
    /\ calculated.nightWorkMinutes = 420

(* C21: every record has totalWorkMinutes = regularWorkMinutes +           *)
(* nightWorkMinutes and none of the three is negative, also a record whose *)
(* checkOut is earlier than its checkIn or whose breaks exceed the shift.  *)
C21_TotalIsSum ==
    \A id \in DOMAIN records :
        /\ records[id].totalWorkMinutes
              = records[id].regularWorkMinutes + records[id].nightWorkMinutes
        /\ records[id].regularWorkMinutes >= 0
        /\ records[id].nightWorkMinutes >= 0
        /\ records[id].totalWorkMinutes >= 0

(* An edit left a record whose checkOut is earlier than its checkIn. *)
C21_Witness ==
    /\ Succeeded("updateAttendanceRecord")
    /\ records[last.id].checkOut # NULL
    /\ records[last.id].checkOut < records[last.id].checkIn

----------------------------------------------------------------------------
(* The sum of a minutes field over the records with the given ids. *)
RECURSIVE SumOfField(_, _, _)
SumOfField(recs, ids, field) ==
    IF ids = {}
    THEN 0
    ELSE LET id == CHOOSE id \in ids : TRUE
         IN  recs[id][field] + SumOfField(recs, ids \ {id}, field)

(* The records the filters of the aggregation form select. *)
QueriedIds(recs, filters) ==
    {id \in DOMAIN recs :
        /\ filters.startDate <= recs[id].date
        /\ recs[id].date <= filters.endDate
        /\ filters.userId \in {"", recs[id].userId}}

Aggregated == last.op = "handleAggregate" /\ last.result = OK

(* C22: the aggregation returns one entry for each employee who has a      *)
(* record among the queried ones and for nobody else; the regular, night   *)
(* and total minutes of the entry are the sums of that field over that     *)
(* employee's queried records, so that the records of other employees add  *)
(* nothing; and the aggregation changes no stored record.                  *)
C22_SumsPerEmployee ==
    [][(last'.op = "handleAggregate" /\ last'.result = OK)
       => LET queried == QueriedIds(records, adminPage.aggFilters)
              results == adminPage'.aggregatedResults
              of(uid) == {id \in queried : records[id].userId = uid}
          IN  /\ DOMAIN results = {records[id].userId : id \in queried}
              /\ \A uid \in DOMAIN results :
                    /\ results[uid].regularWorkMinutes
                          = SumOfField(records, of(uid), "regularWorkMinutes")
                    /\ results[uid].nightWorkMinutes
                          = SumOfField(records, of(uid), "nightWorkMinutes")
                    /\ results[uid].totalWorkMinutes
                          = SumOfField(records, of(uid), "totalWorkMinutes")
              /\ records' = records]_vars

(* Two records of u1 were added up while a record of u2 was not queried or *)
(* not there: 300 + 120 regular and 60 + 0 night minutes.                  *)
C22_Witness ==
    /\ Aggregated
    /\ Len(records) = 2
    /\ "u1" \in DOMAIN adminPage.aggregatedResults
    /\ adminPage.aggregatedResults["u1"].regularWorkMinutes = 420
    /\ adminPage.aggregatedResults["u1"].nightWorkMinutes = 60
    /\ adminPage.aggregatedResults["u1"].totalWorkMinutes = 480

(* C23: the estimated salary of every aggregated employee is the integer   *)
(* nearest to regular/60 * rate + night/60 * rate * 1.5, that is to        *)
(* (2 * regular + 3 * night) * rate / 120, rate being the employee's       *)
(* hourly rate; 420 regular and 60 night minutes at 10000 give 85000.      *)
C23_EstimatedSalary ==
    [][(last'.op = "handleAggregate" /\ last'.result = OK)
       => LET results == adminPage'.aggregatedResults
              employees == adminPage.employees
          IN  \A uid \in DOMAIN results :
                \A i \in DOMAIN employees :
                    employees[i].uid = uid
                    => LET exact120 ==
                            (2 * results[uid].regularWorkMinutes
                                + 3 * results[uid].nightWorkMinutes)
                            * employees[i].hourlyRate
                       IN  /\ 120 * results[uid].estimatedSalary - exact120 <= 60
                           /\ exact120 - 120 * results[uid].estimatedSalary <= 60]_vars

(* 420 regular and 60 night minutes at 10000 an hour were paid 85000. *)
C23_Witness ==
    /\ Aggregated
    /\ "u1" \in DOMAIN adminPage.aggregatedResults
    /\ adminPage.aggregatedResults["u1"].regularWorkMinutes = 420
    /\ adminPage.aggregatedResults["u1"].nightWorkMinutes = 60
    /\ adminPage.aggregatedResults["u1"].hourlyRate = 10000
    /\ adminPage.aggregatedResults["u1"].estimatedSalary = 85000

----------------------------------------------------------------------------
(* Two values are the same value: the same number, string, null or         *)
(* undefined, or objects with the same members whatever the order of the   *)
(* keys.                                                                   *)
SameValue(a, b) ==
    IF a.type = "object" /\ b.type = "object"
    THEN {a.entries[i] : i \in DOMAIN a.entries}
            = {b.entries[i] : i \in DOMAIN b.entries}
    ELSE a = b

BuiltChanges == last.op = "buildChanges"

(* C24 as stated: buildChanges returns an entry exactly for the keys of    *)
(* afterUpdates whose value differs from the value before has for the key, *)
(* and the entry holds that before value and the after value; a key with   *)
(* equal values and a key that only before has get no entry.               *)
C24_ChangesAreDifferences ==
    BuiltChanges
    => /\ DOMAIN audit.changes
            = {key \in DOMAIN audit.afterUpdates :
                    ~ SameValue(valueAt(audit.before, key),
                                audit.afterUpdates[key])}
       /\ \A key \in DOMAIN audit.changes :
            /\ audit.changes[key].before = valueAt(audit.before, key)
            /\ audit.changes[key].after = audit.afterUpdates[key]

(* C24, amended: buildChanges returns an entry exactly for the keys of     *)
(* afterUpdates whose value has another JSON text (JSON.stringify) than    *)
(* the value before has for the key, and the entry holds that before value *)
(* and the after value, null standing for a value that is undefined; a key *)
(* whose values have the same JSON text and a key that only before has get *)
(* no entry.                                                               *)
C24_ChangesAreTextDifferences ==
    BuiltChanges
    => /\ DOMAIN audit.changes \subseteq DOMAIN audit.afterUpdates
       /\ \A key \in DOMAIN audit.afterUpdates :
            key \in DOMAIN audit.changes
            <=> JSONstringify(valueAt(audit.before, key))
                    # JSONstringify(audit.afterUpdates[key])
       /\ \A key \in DOMAIN audit.changes :
            /\ audit.changes[key].before
                  = IF key \in DOMAIN audit.before
                       /\ audit.before[key] # Undefined
                    THEN audit.before[key] ELSE Null
            /\ audit.changes[key].after
                  = IF audit.afterUpdates[key] # Undefined
                    THEN audit.afterUpdates[key] ELSE Null

(* The key a was not in before and got an entry with before: null, while   *)
(* the key b, which only before had, got none.                             *)
C24_Witness ==
    /\ BuiltChanges
    /\ DOMAIN audit.before = {"b"}
    /\ DOMAIN audit.afterUpdates = {"a"}
    /\ DOMAIN audit.changes = {"a"}
    /\ audit.changes["a"] = [before |-> Null, after |-> Str("old")]

----------------------------------------------------------------------------
(* The state of an employee's session: NONE when no record of the employee *)
(* is open, ON_BREAK when the open record has a break without end, OPEN    *)
(* otherwise.                                                              *)
SessionState(recs, userId) ==
    LET open == {id \in DOMAIN recs :
                    recs[id].userId = userId /\ recs[id].checkOut = NULL}
    IN  IF open = {} THEN "NONE"
        ELSE IF \E id \in open :
                    \E i \in DOMAIN recs[id].breaks : recs[id].breaks[i].end = NULL
             THEN "ON_BREAK"
             ELSE "OPEN"

SessionTransitions ==
    {<<"NONE", "clockIn", "OPEN">>,
     <<"OPEN", "startBreak", "ON_BREAK">>,
     <<"ON_BREAK", "endBreak", "OPEN">>,
     <<"OPEN", "clockOut", "NONE">>,
     <<"ON_BREAK", "clockOut", "NONE">>}

(* C25: a lifecycle operation of an employee succeeds exactly in the       *)
(* states NONE --clockIn--> OPEN, OPEN --startBreak--> ON_BREAK,           *)
(* ON_BREAK --endBreak--> OPEN, OPEN or ON_BREAK --clockOut--> NONE, and   *)
(* then moves the session to the state named; in every other state it      *)
(* fails and changes no record; the sessions of the other employees stay   *)
(* where they were.                                                        *)
C25_SessionStateMachine ==
    [][LET userId == last'.userId
           before == SessionState(records, userId)
           after == SessionState(records', userId)
       IN  /\ last'.result = OK
                <=> \E tr \in SessionTransitions :
                        tr[1] = before /\ tr[2] = last'.op
           /\ last'.result = OK
                => <<before, last'.op, after>> \in SessionTransitions
           /\ last'.result # OK => records' = records
           /\ \A other \in Users \ {userId} :
                SessionState(records', other) = SessionState(records, other)]_vars

(* The employee went through OPEN, ON_BREAK and OPEN again and clocked     *)
(* out: the record is closed and holds a break that endBreak ended before. *)
C25_Witness ==
    /\ Succeeded("clockOut")
    /\ Len(records[last.id].breaks) = 1
    /\ records[last.id].breaks[1].end # NULL
    /\ records[last.id].breaks[1].end < records[last.id].checkOut
    /\ SessionState(records, last.userId) = "NONE"

(* C26: in every record, every break with both start and end set has       *)
(* end > start, also a break that endBreak ended or clockOut closed at the *)
(* instant at which it was started, and a break an edit has written.       *)
C26_BreakEndsAfterStart ==
    \A id \in DOMAIN records :
        \A i \in DOMAIN records[id].breaks :
            LET b == records[id].breaks[i]
            IN  (b.start # NULL /\ b.end # NULL) => b.end > b.start

----------------------------------------------------------------------------
(* The step is a press of the minimum-break helper on a form with check-in *)
(* and check-out set and fewer than 60 break minutes.                      *)
PressedBelowSixty ==
    /\ editing.editingRecordId # NoId
    /\ editing'.presses = editing.presses + 1
    /\ editing.editingFormData.checkIn # NULL
    /\ editing.editingFormData.checkOut # NULL
    /\ calcBreakMinutes(editing.editingFormData.breaks) < 60

(* The form after the step has one more break than before, and that break  *)
(* ends at the form's check-out and does not start before its check-in.    *)
AddedBreakInsideShift ==
    LET form == editing'.editingFormData
    IN  /\ Len(form.breaks) = Len(editing.editingFormData.breaks) + 1
        /\ SubSeq(form.breaks, 1, Len(form.breaks) - 1)
              = editing.editingFormData.breaks
        /\ form.breaks[Len(form.breaks)].end = form.checkOut
        /\ form.breaks[Len(form.breaks)].start >= form.checkIn

----------------------------------------------------------------------------
(* C28: a record with checkOut set holds no break with end = null, also    *)
(* when the reads and writes of lifecycle calls of the same employee       *)
(* interleave (a startBreak that read the record before a clockOut wrote   *)
(* it).                                                                    *)
C28_ClosedRecordHasNoOpenBreak ==
    \A id \in DOMAIN records :
        records[id].checkOut # NULL
        => \A i \in DOMAIN records[id].breaks :
                records[id].breaks[i].end # NULL

(* C29: with the administrative operations included, no employee ever has  *)
(* two open records: neither addAttendanceRecord with checkOut = null for  *)
(* an employee who has an open record, nor an edit that clears checkOut of *)
(* a closed record, leaves two records of one employee with checkOut =     *)
(* null.                                                                   *)
C29_NoSecondOpenRecordByAdmin ==
    \A id1, id2 \in DOMAIN records :
        (/\ records[id1].userId = records[id2].userId
         /\ records[id1].checkOut = NULL
         /\ records[id2].checkOut = NULL)
        => id1 = id2

----------------------------------------------------------------------------
(* The dashboard was loaded and shows the records as they are now. *)
FreshlyFetched == last.op = "fetchAllData" /\ last.result = OK

(* C30: after a fresh fetch the dashboard holds at most one record of each *)
(* employee; for an employee who has an open record it holds an open one;  *)
(* and it offers clock-in exactly to the employees whose clockIn would     *)
(* succeed, that is who have no open record - whatever records the         *)
(* lifecycle and the administrator have left.                              *)
C30_DashboardOffersClockIn ==
    FreshlyFetched
    => /\ \A i, j \in DOMAIN homePage.relevantAttendance :
            homePage.relevantAttendance[i].userId
                = homePage.relevantAttendance[j].userId
            => i = j
       /\ \A uid \in Users :
            /\ OpenRecordsOf(records, uid) # {}
                => /\ uid \in DOMAIN homePage.attendance
                   /\ homePage.attendance[uid].checkOut = NULL
            /\ canClockIn(homePage.attendance, uid)
                <=> getOpenAttendanceRecordId(records, uid) = NoId

====
